---- MODULE Spec2Model ----
(***************************************************************************)
(* Retrieval / approval / synthesis workflow of the interactive RAG agent  *)
(* (src/agent/agent.py, src/agent/state.py, src/agent/tools.py).           *)
(*                                                                         *)
(* The shared RAGState is one record.  Every tool of the agent is a        *)
(* coroutine: it runs atomically between two awaits, and is suspended at   *)
(* an await.  A task's pc names the await it is suspended at (by source    *)
(* line of agent.py).  The remote observer (frontend) writes               *)
(* approved_chunk_ids and search_config at any instant.                    *)
(*                                                                         *)
(* Scores and thresholds are percentages (0.5 is 50).  A chunk's content   *)
(* is identified with its chunk_id and a document's title with its         *)
(* document_id.  An optional value is <<>> (None) or <<v>>.                *)
(***************************************************************************)
EXTENDS Integers, Sequences, FiniteSets, TLC

VARIABLES state, tasks, clock, ret, scenario, ghost, ingest, db

vars == <<state, tasks, clock, ret, scenario, ghost, ingest, db>>

(***************************************************************************)
(* Bounds of the model.                                                    *)
(***************************************************************************)
MaxSearches == 2        \* searches started in the "workflow" scenario
MaxHits == 2            \* length up to which every backend answer is tried
HistorySearches == 11   \* searches started in the "history" scenario
OverlapSearches == 2    \* searches started in the "overlap" scenario
LiveSearches == 2       \* searches started in the "live" scenario
MaxSections == 2        \* sections of an ingested document
BoundedSearches == 2    \* searches started in the "bounded" scenario
MaxPools == 3           \* pools created in the "pool" scenario

(***************************************************************************)
(* Program constants.                                                      *)
(***************************************************************************)
HistoryLimit == 10              \* agent.py:170
DefaultThreshold == 50          \* state.py:56
DefaultMaxResults == 10         \* state.py:58
\* Settings.max_match_count (tools.py:50), a setting of the deployment: 50
\* unless configured, 2 in the "bounded" scenario.
max_match_count == IF scenario = "bounded" THEN 2 ELSE 50

Min(a, b) == IF a < b THEN a ELSE b

None == <<>>
Some(v) == <<v>>

Tasks == {1, 2}

(***************************************************************************)
(* The knowledge store as the search backend sees it: chunks c1, c2 of     *)
(* document d1 and c3 of d2, plus the six hits e1..e6 of the worked        *)
(* example of the specification (two documents, scores 90..20).  c9 is an  *)
(* id that no search ever returns (a stale approval).                      *)
(***************************************************************************)
BaseChunks == {"c1", "c2", "c3"}
ExampleChunks == {"e1", "e2", "e3", "e4", "e5", "e6"}
ChunkIds == BaseChunks \cup ExampleChunks

DocOf(c) ==
    CASE c \in {"c1", "c2"} -> "d1"
      [] c = "c3" -> "d2"
      [] c \in {"e1", "e3", "e5"} -> "dA"
      [] OTHER -> "dB"

ScoreOf(c) ==
    CASE c = "c1" -> 70
      [] c = "c2" -> 50
      [] c = "c3" -> 60
      [] c = "e1" -> 90
      [] c = "e2" -> 70
      [] c = "e3" -> 60
      [] c = "e4" -> 40
      [] c = "e5" -> 30
      [] OTHER -> 20

Docs == {DocOf(c) : c \in ChunkIds}

\* One row of the backend's answer (tools.py:137-150 / 71-82).
Row(c) == [chunk_id |-> c, document_id |-> DocOf(c), score |-> ScoreOf(c)]

ExampleHits == <<Row("e1"), Row("e2"), Row("e3"), Row("e4"), Row("e5"), Row("e6")>>

\* Sequences of distinct base chunks, of length at most MaxHits.
DistinctSeqs ==
    UNION {{s \in [1..k -> BaseChunks] : \A i, j \in 1..k : i # j => s[i] # s[j]}
           : k \in 0..Min(MaxHits, Cardinality(BaseChunks))}

RowsOf(s) == [i \in 1..Len(s) |-> Row(s[i])]

(***************************************************************************)
(* state.py                                                                *)
(***************************************************************************)
SearchConfig ==
    [similarity_threshold |-> DefaultThreshold,
     max_results |-> DefaultMaxResults,
     search_type |-> "semantic"]

\* Mutant: a new state already waits for an approval.
RAGStateAwaiting ==
    [retrieved_chunks |-> <<>>,
     current_query |-> None,
     search_history |-> <<>>,
     total_chunks_in_kb |-> 0,
     knowledge_base_status |-> "ready",
     approved_chunk_ids |-> <<>>,
     awaiting_approval |-> TRUE,
     search_config |-> SearchConfig,
     is_searching |-> FALSE,
     is_synthesizing |-> FALSE,
     error_message |-> None]

RAGState ==
    [retrieved_chunks |-> <<>>,
     current_query |-> None,
     search_history |-> <<>>,
     total_chunks_in_kb |-> 0,
     knowledge_base_status |-> "ready",
     approved_chunk_ids |-> <<>>,
     awaiting_approval |-> FALSE,
     search_config |-> SearchConfig,
     is_searching |-> FALSE,
     is_synthesizing |-> FALSE,
     error_message |-> None]

RetrievedChunk(row) ==
    [chunk_id |-> row.chunk_id,
     document_id |-> row.document_id,
     similarity |-> row.score,
     chunk_index |-> 1,
     approved |-> FALSE]

SearchQuery(q, ts, config) ==
    [query |-> q, timestamp |-> ts,
     match_count |-> config.max_results,
     search_type |-> config.search_type]

\* f"error: {str(e)}"
ErrorStatus(msg) == IF msg = "" THEN "error: " ELSE "error: timeout"

Range(s) == {s[i] : i \in 1..Len(s)}
Ids(chunks) == {chunks[i].chunk_id : i \in 1..Len(chunks)}

(***************************************************************************)
(* The environment, per scenario                                           *)
(***************************************************************************)
\* Answers the backend may give, per scenario.
HitLists ==
    IF scenario = "workflow"
    THEN {RowsOf(s) : s \in DistinctSeqs}
         \cup {RowsOf(<<"c1", "c3", "c2">>), RowsOf(<<"c2", "c3", "c1">>), ExampleHits}
    ELSE IF scenario = "overlap"
    THEN {<<Row("c1")>>, <<Row("c3")>>}
    ELSE IF scenario = "bounded"
    THEN {RowsOf(s) : s \in DistinctSeqs}
         \cup {RowsOf(<<"c1", "c3", "c2">>), ExampleHits}
    ELSE {<<Row("c1")>>}

\* Values the observer may write.  No field of SearchConfig carries a
\* constraint (state.py:55-61), so any number can be written: 150 is a
\* threshold of 1.5 and 60 is above max_match_count.
Configs ==
    IF scenario = "workflow"
    THEN {SearchConfig,
          [SearchConfig EXCEPT !.search_type = "hybrid"],
          [SearchConfig EXCEPT !.search_type = "hybrid", !.similarity_threshold = 60]}
    ELSE IF scenario = "overlap"
    THEN {[SearchConfig EXCEPT !.similarity_threshold = 150, !.max_results = 60]}
    ELSE IF scenario = "bounded"
    THEN {[SearchConfig EXCEPT !.max_results = 1],
          [SearchConfig EXCEPT !.search_type = "hybrid"]}
    ELSE {SearchConfig}

Approvals ==
    IF scenario = "workflow"
    THEN {<<>>, <<"c2", "c1">>, <<"c3", "c9">>}
    ELSE IF scenario = "overlap" THEN {<<"c1">>}
    ELSE {<<"c1">>}

\* str(e) of the exception an awaited call raises; str(TimeoutError()) is ""
ErrMsgs == IF scenario = "workflow" THEN {"", "timeout"} ELSE {"timeout"}
Counts == {5}                   \* SELECT COUNT(*) (tools.py:165-166)
Queries == {"q"}

SearchLimit ==
    CASE scenario = "workflow" -> MaxSearches
      [] scenario = "overlap" -> OverlapSearches
      [] scenario = "live" -> LiveSearches
      [] scenario = "bounded" -> BoundedSearches
      [] OTHER -> HistorySearches
MaxInFlight == IF scenario = "overlap" THEN 2 ELSE 1

(***************************************************************************)
(* agent.py: _assign_chunk_indices                                         *)
(***************************************************************************)
RECURSIVE AssignLoop(_, _, _)
AssignLoop(chunks, i, doc_counters) ==
    IF i > Len(chunks) THEN chunks
    ELSE LET d == chunks[i].document_id
             n == doc_counters[d] + 1
         IN  AssignLoop([chunks EXCEPT ![i].chunk_index = n], i + 1,
                        [doc_counters EXCEPT ![d] = n])

\* Mutant: one counter for the whole list instead of one per document.
assign_by_position(chunks) == [i \in 1..Len(chunks) |-> [chunks[i] EXCEPT !.chunk_index = i]]

assign_chunk_indices(chunks) == AssignLoop(chunks, 1, [d \in Docs |-> 0])

(***************************************************************************)
(* tools.py and the conversions of agent.py:101-146                        *)
(***************************************************************************)
\* Mutant: the limit is passed to the backend as it came.
ClampCountSkipped(match_count) == match_count

\* match_count = min(match_count, deps.settings.max_match_count)
ClampCount(match_count) == Min(match_count, max_match_count)

\* Mutant: a strict comparison.
HybridKeepStrict(row, config) == row.score > config.similarity_threshold

\* agent.py:124, the coordinator's own filter of the hybrid hits.
HybridKeep(row, config) == row.score >= config.similarity_threshold

\* tools.py:62-63, WHERE similarity >= $3 of the semantic query.
SemanticKeep(row, threshold) == row.score >= threshold

semantic_search(rows, threshold) ==
    SelectSeq(rows, LAMBDA r : SemanticKeep(r, threshold))

\* Mutant: the coordinator trusts the backend and keeps every hit.
HybridChunksUnfiltered(results, config) ==
    [i \in 1..Len(results) |-> RetrievedChunk(results[i])]

HybridChunks(results, config) ==
    LET kept == SelectSeq(results, LAMBDA r : HybridKeep(r, config))
    IN  [i \in 1..Len(kept) |-> RetrievedChunk(kept[i])]

\* Mutant: the coordinator filters the semantic hits itself, strictly above
\* the default threshold.
SemanticChunksFiltered(results) ==
    LET kept == SelectSeq(results, LAMBDA r : r.score > DefaultThreshold)
    IN  [i \in 1..Len(kept) |-> RetrievedChunk(kept[i])]

SemanticChunks(results) == [i \in 1..Len(results) |-> RetrievedChunk(results[i])]

\* Mutant: nothing is appended.
AppendHistoryNothing(history, search_query) == history

\* Mutant: the slice keeps the oldest records.
AppendHistoryKeepOldest(history, search_query) ==
    LET h == Append(history, search_query)
    IN  IF Len(h) > HistoryLimit THEN SubSeq(h, 1, HistoryLimit) ELSE h

\* agent.py:169-171
AppendHistory(history, search_query) ==
    LET h == Append(history, search_query)
    IN  IF Len(h) > HistoryLimit
        THEN SubSeq(h, Len(h) - HistoryLimit + 1, Len(h))
        ELSE h

(***************************************************************************)
(* Tasks and tool returns                                                  *)
(***************************************************************************)
\* The frame of a coroutine: where it is suspended and its local variables.
IdleTask ==
    [pc |-> "idle", op |-> "none", search_query |-> None, config |-> None,
     results |-> <<>>]

InFlight == {t \in Tasks : tasks[t].pc # "idle"}
Quiescent == InFlight = {}

\* The slot a newly invoked tool runs in.
FreeSlot(t) ==
    /\ tasks[t].pc = "idle"
    /\ \A u \in Tasks : u < t => tasks[u].pc # "idle"
    /\ Cardinality(InFlight) < MaxInFlight

NoReturn == [op |-> "none", kind |-> "none", at |-> "none", value |-> <<>>, snapshots |-> <<>>]

\* Mutant: the return is built without its metadata.
ToolReturnWithoutMetadata(op, kind, at, value, snapshots) ==
    [op |-> op, kind |-> kind, at |-> at, value |-> value, snapshots |-> <<>>]

\* ToolReturn(return_value=..., metadata=[StateSnapshotEvent(snapshot=state.model_dump())])
\* ret is the value the step just taken handed to the caller.
ToolReturn(op, kind, at, value, snapshots) ==
    [op |-> op, kind |-> kind, at |-> at, value |-> value, snapshots |-> snapshots]

\* History of the run, recorded for the properties only: whether the last
\* search that returned left a non-empty chunk list, the number of syntheses
\* completed since it returned (counted up to 2), and every SearchQuery that
\* was appended to search_history, in order.
NoHistory == [nonempty |-> FALSE, syntheses |-> 0, recorded |-> <<>>]

\* No document is being ingested in the sessions of the agent.
NoIngest == [phase |-> "none"]

\* The class attribute DatabasePool._pool is None and nobody calls the class
\* (db_utils.py:18).
NoPool == [pool |-> None, made |-> 0, since_close |-> 0, handed |-> {},
           pc |-> <<"idle", "idle", "idle">>]

Init ==
    /\ scenario = "workflow"
    /\ state = RAGState
    /\ tasks = [t \in Tasks |-> IdleTask]
    /\ clock = 0
    /\ ret = NoReturn
    /\ ghost = NoHistory
    /\ ingest = NoIngest
    /\ db = NoPool

(***************************************************************************)
(* search_knowledge_base                                                   *)
(***************************************************************************)
\* Mutant: the error of the previous operation is kept.
StartedKeepingError(s, search_query) ==
    [s EXCEPT !.is_searching = TRUE,
              !.current_query = Some(search_query)]

\* agent.py:74-85
Started(s, search_query) ==
    [s EXCEPT !.is_searching = TRUE,
              !.error_message = None,
              !.current_query = Some(search_query)]

\* Mutant: the success path forgets to reset is_searching.
InstalledStillSearching(s, chunks, search_query) ==
    [s EXCEPT !.retrieved_chunks = assign_chunk_indices(chunks),
              !.awaiting_approval = Len(chunks) > 0,
              !.approved_chunk_ids = <<>>,
              !.search_history = AppendHistory(@, search_query)]

\* Mutant: the new list is stored with all of its chunks approved.
InstalledApproved(s, chunks, search_query) ==
    [s EXCEPT !.retrieved_chunks = assign_chunk_indices(chunks),
              !.is_searching = FALSE,
              !.awaiting_approval = Len(chunks) > 0,
              !.approved_chunk_ids = [i \in 1..Len(chunks) |-> chunks[i].chunk_id],
              !.search_history = AppendHistory(@, search_query)]

\* agent.py:149-171
Installed(s, chunks, search_query) ==
    [s EXCEPT !.retrieved_chunks = assign_chunk_indices(chunks),
              !.is_searching = FALSE,
              !.awaiting_approval = Len(chunks) > 0,
              !.approved_chunk_ids = <<>>,
              !.search_history = AppendHistory(@, search_query)]

\* agent.py:174-175 and 315-316
Counted(s, n) ==
    [s EXCEPT !.total_chunks_in_kb = n,
              !.knowledge_base_status = "ready"]

\* Mutant: the handler forgets to reset is_searching.
FailedStillSearching(s, msg) ==
    [s EXCEPT !.retrieved_chunks = <<>>,
              !.error_message = Some(msg),
              !.knowledge_base_status = ErrorStatus(msg)]

\* agent.py:203-206
Failed(s, msg) ==
    [s EXCEPT !.is_searching = FALSE,
              !.retrieved_chunks = <<>>,
              !.error_message = Some(msg),
              !.knowledge_base_status = ErrorStatus(msg)]

\* agent.py:71-90, up to the await of agent_deps.initialize()
SearchStart(t, q) ==
    /\ FreeSlot(t)
    /\ clock < SearchLimit
    /\ LET config == state.search_config
           search_query == SearchQuery(q, clock + 1, config)
       IN  /\ state' = Started(state, search_query)
           /\ tasks' = [tasks EXCEPT ![t] = [pc |-> "L90", op |-> "search",
                                             search_query |-> Some(search_query),
                                             config |-> Some(config),
                                             results |-> <<>>]]
    /\ clock' = clock + 1
    /\ ret' = NoReturn
    /\ UNCHANGED <<ingest, db, scenario, ghost>>

\* agent.py:90 returns; the task awaits hybrid_search (102) or semantic_search (127)
SearchInitialized(t) ==
    /\ tasks[t].pc = "L90"
    /\ tasks' = [tasks EXCEPT ![t].pc = "L102"]
    /\ ret' = NoReturn
    /\ UNCHANGED <<ingest, db, state, clock, scenario, ghost>>

\* agent.py:101-174: the backend answers with rows, up to the await of
\* get_chunk_count.  The backend returns at most the limit it is given.
SearchResults(t, rows) ==
    /\ tasks[t].pc = "L102"
    /\ LET config == tasks[t].config[1]
           search_query == tasks[t].search_query[1]
           results == IF config.search_type = "hybrid"
                      THEN rows
                      ELSE semantic_search(rows, config.similarity_threshold)
           chunks == IF config.search_type = "hybrid"
                     THEN HybridChunks(results, config)
                     ELSE SemanticChunks(results)
       IN  /\ Len(rows) <= ClampCount(config.max_results)
           /\ state' = Installed(state, chunks, search_query)
           /\ tasks' = [tasks EXCEPT ![t].pc = "L174", ![t].results = results]
           /\ ghost' = [ghost EXCEPT !.recorded = Append(@, search_query)]
    /\ ret' = NoReturn
    /\ UNCHANGED <<ingest, db, clock, scenario>>

\* agent.py:174-178: the chunk count arrives, up to the await of cleanup
SearchCounted(t, n) ==
    /\ tasks[t].op = "search"
    /\ tasks[t].pc = "L174"
    /\ state' = Counted(state, n)
    /\ tasks' = [tasks EXCEPT ![t].pc = "L178"]
    /\ ret' = NoReturn
    /\ UNCHANGED <<ingest, db, clock, scenario, ghost>>

\* agent.py:178-199: cleanup returns, the tool returns its message and snapshot
SearchReturn(t) ==
    /\ tasks[t].pc = "L178"
    /\ tasks' = [tasks EXCEPT ![t] = IdleTask]
    /\ ret' = ToolReturn("search", "ok", "L191", <<>>, <<state>>)
    /\ ghost' = [ghost EXCEPT !.nonempty = state.retrieved_chunks # <<>>,
                               !.syntheses = 0]
    /\ UNCHANGED <<ingest, db, state, clock, scenario>>

\* agent.py:201-216: the awaited call raises an Exception e, msg = str(e)
SearchExcept(t, msg) ==
    /\ tasks[t].op = "search"
    /\ tasks[t].pc \in {"L90", "L102", "L174", "L178"}
    /\ state' = Failed(state, msg)
    /\ tasks' = [tasks EXCEPT ![t] = IdleTask]
    /\ ret' = ToolReturn("search", "failed", tasks[t].pc, <<>>, <<state'>>)
    /\ ghost' = [ghost EXCEPT !.nonempty = FALSE, !.syntheses = 0]
    /\ UNCHANGED <<ingest, db, clock, scenario>>

(***************************************************************************)
(* get_knowledge_base_stats                                                *)
(***************************************************************************)
\* Mutant: the handler also resets the count.
StatsFailedResettingCount(s, msg) ==
    [s EXCEPT !.total_chunks_in_kb = 0,
              !.knowledge_base_status = ErrorStatus(msg)]

\* agent.py:331
StatsFailed(s, msg) == [s EXCEPT !.knowledge_base_status = ErrorStatus(msg)]

\* agent.py:309-313, up to the await of agent_deps.initialize()
StatsStart(t) ==
    /\ FreeSlot(t)
    /\ tasks' = [tasks EXCEPT ![t] = [IdleTask EXCEPT !.pc = "L313", !.op = "stats"]]
    /\ ret' = NoReturn
    /\ UNCHANGED <<ingest, db, state, clock, scenario, ghost>>

\* agent.py:313 returns; the task awaits get_chunk_count (315)
StatsInitialized(t) ==
    /\ tasks[t].pc = "L313"
    /\ tasks' = [tasks EXCEPT ![t].pc = "L315"]
    /\ ret' = NoReturn
    /\ UNCHANGED <<ingest, db, state, clock, scenario, ghost>>

\* agent.py:315-318: the chunk count arrives, up to the await of cleanup
StatsCounted(t, n) ==
    /\ tasks[t].pc = "L315"
    /\ state' = Counted(state, n)
    /\ tasks' = [tasks EXCEPT ![t].pc = "L318"]
    /\ ret' = NoReturn
    /\ UNCHANGED <<ingest, db, clock, scenario, ghost>>

\* agent.py:318-328
StatsReturn(t) ==
    /\ tasks[t].pc = "L318"
    /\ tasks' = [tasks EXCEPT ![t] = IdleTask]
    /\ ret' = ToolReturn("stats", "ok", "L320", <<>>, <<state>>)
    /\ UNCHANGED <<ingest, db, state, clock, scenario, ghost>>

\* agent.py:330-340
StatsExcept(t, msg) ==
    /\ tasks[t].op = "stats"
    /\ tasks[t].pc \in {"L313", "L315", "L318"}
    /\ state' = StatsFailed(state, msg)
    /\ tasks' = [tasks EXCEPT ![t] = IdleTask]
    /\ ret' = ToolReturn("stats", "failed", tasks[t].pc, <<>>, <<state'>>)
    /\ UNCHANGED <<ingest, db, clock, scenario, ghost>>

(***************************************************************************)
(* synthesize_with_sources: no await, one step                             *)
(***************************************************************************)
\* Mutant: the approved subset taken in the order of approved_chunk_ids.
RECURSIVE ApprovedChunksInApprovalOrder(_, _)
ApprovedChunksInApprovalOrder(chunks, approved_chunk_ids) ==
    IF approved_chunk_ids = <<>> THEN <<>>
    ELSE SelectSeq(chunks, LAMBDA chunk : chunk.chunk_id = Head(approved_chunk_ids))
         \o ApprovedChunksInApprovalOrder(chunks, Tail(approved_chunk_ids))

\* Mutant: the approved chunks are those whose own flag is set.
ApprovedChunksByFlag(chunks, approved_chunk_ids) ==
    SelectSeq(chunks, LAMBDA chunk : chunk.approved)

\* agent.py:361-365
ApprovedChunks(chunks, approved_chunk_ids) ==
    SelectSeq(chunks, LAMBDA chunk : chunk.chunk_id \in Range(approved_chunk_ids))

\* agent.py:398-400, one block per approved chunk
Block(chunk) ==
    [chunk_index |-> chunk.chunk_index,
     document_title |-> chunk.document_id,
     content |-> chunk.chunk_id]

\* agent.py:396-402
Context(approved_chunks) == [i \in 1..Len(approved_chunks) |-> Block(approved_chunks[i])]

\* Mutant: the chunk list is narrowed to the approved chunks.
SynthesizedNarrowed(s) ==
    [s EXCEPT !.retrieved_chunks = ApprovedChunks(@, s.approved_chunk_ids),
              !.awaiting_approval = FALSE,
              !.error_message = None]

\* Mutant: is_synthesizing is not reset before the return.
SynthesizedLeftSet(s) ==
    [s EXCEPT !.is_synthesizing = TRUE,
              !.awaiting_approval = FALSE,
              !.error_message = None]

\* agent.py:390-393 and 405
Synthesized(s) ==
    [[s EXCEPT !.is_synthesizing = TRUE,
               !.awaiting_approval = FALSE,
               !.error_message = None]
        EXCEPT !.is_synthesizing = FALSE]

\* Mutant: the not-ready return pushes a snapshot like the other returns.
NotReadyWithSnapshot(s) == ToolReturn("synthesize", "not_ready", "L385", <<>>, <<s>>)

\* Mutant: the gate also requires awaiting_approval.
ReadyWhenAwaiting(s) ==
    s.awaiting_approval /\ ApprovedChunks(s.retrieved_chunks, s.approved_chunk_ids) # <<>>

\* agent.py:383, "if not approved_chunks"
Ready(s) == ApprovedChunks(s.retrieved_chunks, s.approved_chunk_ids) # <<>>

\* agent.py:383-388: the state is left alone, the return carries no snapshot
NotReadyReturn(s) == ToolReturn("synthesize", "not_ready", "L385", <<>>, <<>>)

\* agent.py:358-388
SynthesizeNotReady ==
    /\ Cardinality(InFlight) < MaxInFlight
    /\ ~Ready(state)
    /\ ret' = NotReadyReturn(state)
    /\ UNCHANGED <<ingest, db, state, tasks, clock, scenario, ghost>>

\* agent.py:358-424
Synthesize ==
    /\ Cardinality(InFlight) < MaxInFlight
    /\ LET approved_chunks == ApprovedChunks(state.retrieved_chunks, state.approved_chunk_ids)
       IN  /\ Ready(state)
           /\ state' = Synthesized(state)
           /\ ret' = ToolReturn("synthesize", "ok", "L416",
                                Context(approved_chunks), <<state'>>)
    /\ ghost' = [ghost EXCEPT !.syntheses = Min(@ + 1, 2)]
    /\ UNCHANGED <<ingest, db, tasks, clock, scenario>>

(***************************************************************************)
(* get_state: a pure read, no await                                        *)
(***************************************************************************)
\* agent.py:249-254
StatusLine(s) ==
    IF s.is_searching THEN "searching"
    ELSE IF s.is_synthesizing THEN "synthesizing" ELSE "idle"

\* agent.py:243-287
Summary(s) ==
    [status |-> StatusLine(s),
     query |-> IF s.current_query # None THEN Some(s.current_query[1].query) ELSE None,
     settings |-> s.search_config,
     chunks |-> [i \in 1..Len(s.retrieved_chunks) |->
                   [chunk_index |-> s.retrieved_chunks[i].chunk_index,
                    document_title |-> s.retrieved_chunks[i].document_id,
                    selected |-> s.retrieved_chunks[i].chunk_id \in Range(s.approved_chunk_ids)]],
     selected_count |-> Cardinality(Range(s.approved_chunk_ids)),
     error |-> IF s.error_message # None /\ s.error_message # Some("")
               THEN s.error_message ELSE None]

GetState ==
    /\ Cardinality(InFlight) < MaxInFlight
    /\ ret' = ToolReturn("get_state", "summary", "L289", <<Summary(state)>>, <<>>)
    /\ UNCHANGED <<ingest, db, state, tasks, clock, scenario, ghost>>

(***************************************************************************)
(* The observer (frontend): agent.setState on the two fields it owns       *)
(***************************************************************************)
ObserverApprove(ids) ==
    /\ state' = [state EXCEPT !.approved_chunk_ids = ids]
    /\ ret' = NoReturn
    /\ UNCHANGED <<ingest, db, tasks, clock, scenario, ghost>>

ObserverConfigure(config) ==
    /\ state' = [state EXCEPT !.search_config = config]
    /\ ret' = NoReturn
    /\ UNCHANGED <<ingest, db, tasks, clock, scenario, ghost>>

Next ==
    \/ \E t \in Tasks, q \in Queries : SearchStart(t, q)
    \/ \E t \in Tasks : SearchInitialized(t)
    \/ \E t \in Tasks, rows \in HitLists : SearchResults(t, rows)
    \/ \E t \in Tasks, n \in Counts : SearchCounted(t, n)
    \/ \E t \in Tasks : SearchReturn(t)
    \/ \E t \in Tasks, msg \in ErrMsgs : SearchExcept(t, msg)
    \/ \E t \in Tasks : StatsStart(t)
    \/ \E t \in Tasks : StatsInitialized(t)
    \/ \E t \in Tasks, n \in Counts : StatsCounted(t, n)
    \/ \E t \in Tasks : StatsReturn(t)
    \/ \E t \in Tasks, msg \in ErrMsgs : StatsExcept(t, msg)
    \/ SynthesizeNotReady
    \/ Synthesize
    \/ GetState
    \/ \E ids \in Approvals : ObserverApprove(ids)
    \/ \E config \in Configs : ObserverConfigure(config)

\* One session, tools invoked one at a time, the observer writing at any instant.
Spec == Init /\ [][Next]_vars

\* The same session driven through more searches than the history holds.
InitHistory ==
    /\ scenario = "history"
    /\ state = RAGState
    /\ tasks = [t \in Tasks |-> IdleTask]
    /\ clock = 0
    /\ ret = NoReturn
    /\ ghost = NoHistory
    /\ ingest = NoIngest
    /\ db = NoPool

SpecHistory == InitHistory /\ [][Next]_vars

(***************************************************************************)
(* Progress of a search                                                    *)
(***************************************************************************)
\* The call t awaits (agent.py:90, 102/127, 174, 178) returns or raises and
\* the event loop resumes the coroutine up to its next await or its return.
SearchProgress(t) ==
    \/ SearchInitialized(t)
    \/ \E rows \in HitLists : SearchResults(t, rows)
    \/ \E n \in Counts : SearchCounted(t, n)
    \/ SearchReturn(t)
    \/ \E msg \in ErrMsgs : SearchExcept(t, msg)

\* Every external call eventually returns or raises.
Fairness == \A t \in Tasks : WF_vars(SearchProgress(t))

InitLive ==
    /\ scenario = "live"
    /\ state = RAGState
    /\ tasks = [t \in Tasks |-> IdleTask]
    /\ clock = 0
    /\ ret = NoReturn
    /\ ghost = NoHistory
    /\ ingest = NoIngest
    /\ db = NoPool

SpecLive == InitLive /\ [][Next]_vars /\ Fairness

\* A session of a deployment whose ceiling is below the default max_results.
InitBounded ==
    /\ scenario = "bounded"
    /\ state = RAGState
    /\ tasks = [t \in Tasks |-> IdleTask]
    /\ clock = 0
    /\ ret = NoReturn
    /\ ghost = NoHistory
    /\ ingest = NoIngest
    /\ db = NoPool

SpecBounded == InitBounded /\ [][Next]_vars

(***************************************************************************)
(* Tools overlapping on the one state instance, and cancellation           *)
(***************************************************************************)
\* What the caller gets when the coroutine is cancelled at the await it is
\* suspended at: asyncio.CancelledError, which is not an Exception, so
\* neither handler (agent.py:201, 330) runs and no ToolReturn is built.
Raised(pc) == [op |-> "none", kind |-> "cancelled", at |-> pc, value |-> <<>>, snapshots |-> <<>>]

\* The task awaiting at agent.py:90-178 or 313-318 is cancelled (a timeout
\* placed around the call by the caller, or the request being dropped).
Cancelled(t) ==
    /\ tasks[t].pc # "idle"
    /\ tasks' = [tasks EXCEPT ![t] = IdleTask]
    /\ ret' = Raised(tasks[t].pc)
    /\ UNCHANGED <<ingest, db, state, clock, scenario, ghost>>

NextOverlap ==
    \/ Next
    \/ \E t \in Tasks : Cancelled(t)

\* agent.py:428: every run is handed the same StateDeps(RAGState()), and no
\* lock is taken by any tool, so a second tool may start while a first one
\* is suspended.
InitOverlap ==
    /\ scenario = "overlap"
    /\ state = RAGState
    /\ tasks = [t \in Tasks |-> IdleTask]
    /\ clock = 0
    /\ ret = NoReturn
    /\ ghost = NoHistory
    /\ ingest = NoIngest
    /\ db = NoPool

SpecOverlap == InitOverlap /\ [][NextOverlap]_vars

(***************************************************************************)
(* ingestion/chunker.py: SimpleChunker.chunk_document                      *)
(*                                                                         *)
(* A text is known by its length.  The content of a document is the        *)
(* sequence of its sections (the pieces re.split leaves at the markdown    *)
(* headers), and a section is the sequence of the lengths of its           *)
(* paragraphs, which two newline characters join; a section with no        *)
(* paragraph is whitespace only.                                           *)
(***************************************************************************)
SectionShapes == {<<>>, <<1>>, <<3>>, <<3, 3>>, <<1, 1, 1>>, <<7>>}

Contents == UNION {[1..k -> SectionShapes] : k \in 0..MaxSections}

\* ChunkingConfig(chunk_size, min_chunk_size), in characters.
ChunkingConfigs ==
    {[chunk_size |-> 6, min_chunk_size |-> 2],
     [chunk_size |-> 4, min_chunk_size |-> 1]}

EmptyDict == [k \in {} |-> k]

\* The metadata argument: None, an extra key, a key that collides with the
\* one the chunker writes last.
Metadatas == {None, Some("author" :> "a"), Some("total_chunks" :> 99)}

RECURSIVE Sum(_)
Sum(lens) == IF lens = <<>> THEN 0 ELSE Head(lens) + Sum(Tail(lens))

\* len(section) once stripped.
SectionLen(section) ==
    IF section = <<>> THEN 0 ELSE Sum(section) + 2 * (Len(section) - 1)

\* "if not content.strip()"
Blank(content) == \A i \in 1..Len(content) : content[i] = <<>>

\* chunker.py:106-111
split_on_sections(content) == SelectSeq(content, LAMBDA section : section # <<>>)

\* chunker.py:113-139
RECURSIVE SplitLoop(_, _, _, _, _)
SplitLoop(paragraphs, i, current_chunk, chunks, config) ==
    IF i > Len(paragraphs)
    THEN IF current_chunk > 0 THEN Append(chunks, current_chunk) ELSE chunks
    ELSE LET para == paragraphs[i]
             potential == IF current_chunk > 0 THEN current_chunk + 2 + para ELSE para
         IN  IF para = 0
             THEN SplitLoop(paragraphs, i + 1, current_chunk, chunks, config)
             ELSE IF potential <= config.chunk_size
             THEN SplitLoop(paragraphs, i + 1, potential, chunks, config)
             ELSE SplitLoop(paragraphs, i + 1, para,
                            IF current_chunk > 0 THEN Append(chunks, current_chunk)
                                                 ELSE chunks,
                            config)

split_section(section, config) == SplitLoop(section, 1, 0, <<>>, config)

\* chunker.py:18-31
DocumentChunk(content, index, metadata) ==
    [content |-> content, index |-> index, metadata |-> metadata,
     token_count |-> content \div 4]

\* chunker.py:60-64: the keys of the metadata argument are laid over title
\* and source.
BaseMetadata(title, source, metadata) ==
    (IF metadata = None THEN EmptyDict ELSE metadata[1])
        @@ ("title" :> title @@ "source" :> source)

\* chunker.py:86-95: one chunk per piece of a large section
RECURSIVE AppendPieces(_, _, _, _, _)
AppendPieces(pieces, j, chunks, chunk_index, base_metadata) ==
    IF j > Len(pieces) THEN [chunks |-> chunks, chunk_index |-> chunk_index]
    ELSE AppendPieces(pieces, j + 1,
                      Append(chunks, DocumentChunk(pieces[j], chunk_index, base_metadata)),
                      chunk_index + 1, base_metadata)

\* chunker.py:69-95
RECURSIVE ChunkLoop(_, _, _, _, _, _)
ChunkLoop(sections, i, chunks, chunk_index, base_metadata, config) ==
    IF i > Len(sections) THEN chunks
    ELSE LET section == sections[i]
             n == SectionLen(section)
         IN  IF n < config.min_chunk_size
             THEN ChunkLoop(sections, i + 1, chunks, chunk_index, base_metadata, config)
             ELSE IF n <= config.chunk_size
             THEN ChunkLoop(sections, i + 1,
                            Append(chunks, DocumentChunk(n, chunk_index, base_metadata)),
                            chunk_index + 1, base_metadata, config)
             ELSE LET r == AppendPieces(split_section(section, config), 1, chunks,
                                        chunk_index, base_metadata)
                  IN  ChunkLoop(sections, i + 1, r.chunks, r.chunk_index,
                                base_metadata, config)

\* Mutant: each chunk gets the number of chunks made so far.
WithRunningTotal(chunks) ==
    [i \in 1..Len(chunks) |->
        [chunks[i] EXCEPT !.metadata = ("total_chunks" :> i) @@ @]]

\* chunker.py:97-99
WithTotal(chunks) ==
    [i \in 1..Len(chunks) |->
        [chunks[i] EXCEPT !.metadata = ("total_chunks" :> Len(chunks)) @@ @]]

\* chunker.py:39-101
chunk_document(content, title, source, metadata, config) ==
    IF Blank(content) THEN <<>>
    ELSE WithTotal(ChunkLoop(split_on_sections(content), 1, <<>>, 0,
                             BaseMetadata(title, source, metadata), config))

\* A document handed to the chunker, any content and configuration.
InitIngest ==
    /\ scenario = "ingest"
    /\ state = RAGState
    /\ tasks = [t \in Tasks |-> IdleTask]
    /\ clock = 0
    /\ ret = NoReturn
    /\ ghost = NoHistory
    /\ db = NoPool
    /\ ingest \in {[phase |-> "input", content |-> content, title |-> "T",
                     source |-> "s.md", metadata |-> metadata, config |-> config,
                     chunks |-> <<>>] :
                       content \in Contents, metadata \in Metadatas,
                       config \in ChunkingConfigs}

\* chunks = chunker.chunk_document(content, title, source, metadata)
ChunkDocument ==
    /\ ingest.phase = "input"
    /\ ingest' = [ingest EXCEPT
                    !.phase = "chunked",
                    !.chunks = chunk_document(ingest.content, ingest.title, ingest.source,
                                              ingest.metadata, ingest.config)]
    /\ UNCHANGED <<state, tasks, clock, ret, scenario, ghost, db>>

NextIngest == ChunkDocument

SpecIngest == InitIngest /\ [][NextIngest]_vars

(***************************************************************************)
(* db_utils.py: DatabasePool, called by coroutines of one event loop.      *)
(* db.pool is the class attribute _pool (pools are numbered in the order   *)
(* asyncpg creates them), db.pc[c] is the await caller c is suspended at.  *)
(* db.since_close counts the pools created, and db.handed collects the     *)
(* pools returned by get_pool, since the last close completed.             *)
(***************************************************************************)
Callers == {1, 2, 3}

\* db_utils.py:23-25: _pool is None, the caller awaits asyncpg.create_pool
GetPoolCreates(c) ==
    /\ db.pc[c] = "idle"
    /\ db.pool = None
    /\ db.made < MaxPools
    /\ db' = [db EXCEPT !.pc[c] = "L25"]
    /\ UNCHANGED <<state, tasks, clock, ret, scenario, ghost, ingest>>

\* db_utils.py:23 and 30: _pool is set, it is returned without an await
GetPoolExisting(c) ==
    /\ db.pc[c] = "idle"
    /\ db.pool # None
    /\ db' = [db EXCEPT !.handed = @ \cup {db.pool[1]}]
    /\ UNCHANGED <<state, tasks, clock, ret, scenario, ghost, ingest>>

\* db_utils.py:25-30: create_pool returns a new pool, which is stored in
\* _pool and returned
GetPoolCreated(c) ==
    /\ db.pc[c] = "L25"
    /\ LET pool == db.made + 1
       IN  db' = [db EXCEPT !.pool = Some(pool),
                            !.made = pool,
                            !.since_close = @ + 1,
                            !.handed = @ \cup {pool},
                            !.pc[c] = "idle"]
    /\ UNCHANGED <<state, tasks, clock, ret, scenario, ghost, ingest>>

\* db_utils.py:25: create_pool raises, get_pool raises with it
GetPoolRaises(c) ==
    /\ db.pc[c] = "L25"
    /\ db' = [db EXCEPT !.pc[c] = "idle"]
    /\ UNCHANGED <<state, tasks, clock, ret, scenario, ghost, ingest>>

\* db_utils.py:35-36: _pool is set, the caller awaits its close()
CloseStart(c) ==
    /\ db.pc[c] = "idle"
    /\ db.pool # None
    /\ db' = [db EXCEPT !.pc[c] = "L36"]
    /\ UNCHANGED <<state, tasks, clock, ret, scenario, ghost, ingest>>

\* db_utils.py:36-37: close() returns, _pool is reset
Closed(c) ==
    /\ db.pc[c] = "L36"
    /\ db' = [db EXCEPT !.pool = None,
                        !.since_close = 0,
                        !.handed = {},
                        !.pc[c] = "idle"]
    /\ UNCHANGED <<state, tasks, clock, ret, scenario, ghost, ingest>>

\* db_utils.py:36: close() raises, _pool is left as it is
CloseRaises(c) ==
    /\ db.pc[c] = "L36"
    /\ db' = [db EXCEPT !.pc[c] = "idle"]
    /\ UNCHANGED <<state, tasks, clock, ret, scenario, ghost, ingest>>

NextPool ==
    \/ \E c \in Callers : GetPoolCreates(c)
    \/ \E c \in Callers : GetPoolExisting(c)
    \/ \E c \in Callers : GetPoolCreated(c)
    \/ \E c \in Callers : GetPoolRaises(c)
    \/ \E c \in Callers : CloseStart(c)
    \/ \E c \in Callers : Closed(c)
    \/ \E c \in Callers : CloseRaises(c)

InitPool ==
    /\ scenario = "pool"
    /\ state = RAGState
    /\ tasks = [t \in Tasks |-> IdleTask]
    /\ clock = 0
    /\ ret = NoReturn
    /\ ghost = NoHistory
    /\ ingest = NoIngest
    /\ db = NoPool

SpecPool == InitPool /\ [][NextPool]_vars

(***************************************************************************)
(* Properties                                                              *)
(***************************************************************************)
SynthesisReturned == ret.op = "synthesize" /\ ret.kind = "ok"

\* Positions of the chunk list whose chunk is approved.
ApprovedPositions ==
    {j \in 1..Len(state.retrieved_chunks) :
        \E k \in 1..Len(state.approved_chunk_ids) :
            state.approved_chunk_ids[k] = state.retrieved_chunks[j].chunk_id}

\* The i-th approved position, counting in rank order.
NthApproved(i) ==
    CHOOSE j \in ApprovedPositions :
        Cardinality({k \in ApprovedPositions : k <= j}) = i

\* C1: a bundle returned by synthesize has one block per chunk of the current
\* chunk list whose chunk_id is in approved_chunk_ids, and no other block,
\* the blocks standing in the rank order of the chunk list.
C1_BundleIsApprovedInRankOrder ==
    SynthesisReturned =>
        /\ Len(ret.value) = Cardinality(ApprovedPositions)
        /\ \A i \in 1..Len(ret.value) :
              LET chunk == state.retrieved_chunks[NthApproved(i)]
              IN  /\ ret.value[i].content = chunk.chunk_id
                  /\ ret.value[i].chunk_index = chunk.chunk_index
                  /\ ret.value[i].document_title = chunk.document_id

\* C1 witness: a bundle of two blocks whose order is the reverse of the order
\* of approved_chunk_ids, taken from a list that also holds an unapproved chunk.
C1_Witness ==
    /\ SynthesisReturned
    /\ Len(ret.value) = 2
    /\ Len(state.retrieved_chunks) = 3
    /\ ret.value[1].content = state.approved_chunk_ids[2]
    /\ ret.value[2].content = state.approved_chunk_ids[1]

MutatingReturned == ret.op \in {"search", "stats", "synthesize"}

\* C2: when execute_search, synthesize or the stats refresh returns, on
\* whatever exit path, is_searching and is_synthesizing are both false, in the
\* state and in the snapshot the return carries.
C2_NoFlagLeftSet ==
    (MutatingReturned /\ Quiescent) =>
        /\ ~state.is_searching
        /\ ~state.is_synthesizing
        /\ \A i \in 1..Len(ret.snapshots) :
              ~ret.snapshots[i].is_searching /\ ~ret.snapshots[i].is_synthesizing

\* C2 witness: a search returned through the handler after its chunk-count
\* refresh failed, that is after it had installed its chunk list.
C2_Witness ==
    /\ ret.op = "search"
    /\ ret.kind = "failed"
    /\ ret.at = "L174"
    /\ Quiescent

\* C3: in the stored chunk list the chunk_index of a chunk is the number of
\* chunks of its document up to and including it, so the indices of a
\* document are 1..k in list order whatever was searched before and whatever
\* the threshold dropped.
C3_IndicesPerDocument ==
    LET chunks == state.retrieved_chunks
    IN  \A i \in 1..Len(chunks) :
            chunks[i].chunk_index =
                Cardinality({j \in 1..i : chunks[j].document_id = chunks[i].document_id})

\* C3 witness: the second search has stored its list; the first hit was
\* dropped by the threshold and a later hit of the same document is stored
\* with index 1, next to a chunk of another document.
C3_Witness ==
    \E t \in Tasks :
        /\ tasks[t].pc = "L174"
        /\ Len(state.search_history) = 2
        /\ Len(tasks[t].results) = 3
        /\ Len(state.retrieved_chunks) = 2
        /\ tasks[t].results[1].chunk_id \notin Ids(state.retrieved_chunks)
        /\ \E i \in 1..2 :
              /\ state.retrieved_chunks[i].document_id = tasks[t].results[1].document_id
              /\ state.retrieved_chunks[i].chunk_index = 1
        /\ state.retrieved_chunks[1].document_id # state.retrieved_chunks[2].document_id

\* Positions of the hits whose combined_score reaches the threshold.
KeptPositions(results, threshold) ==
    {j \in 1..Len(results) : results[j].score >= threshold}

NthKept(results, threshold, i) ==
    CHOOSE j \in KeptPositions(results, threshold) :
        Cardinality({k \in KeptPositions(results, threshold) : k <= j}) = i

\* A hybrid search that has just stored its chunk list.
HybridStored(t) ==
    /\ tasks[t].pc = "L174"
    /\ tasks[t].config[1].search_type = "hybrid"

\* C4: in hybrid mode the chunk list a search stores is the sub-sequence of
\* the backend's hits with combined_score >= similarity_threshold, in the
\* backend's order and with nothing of the previous list; of the hits scored
\* 90, 70, 60, 40, 30, 20 a threshold of 50 retains 3.
C4_HybridKeepsScoresAtLeastThreshold ==
    \A t \in Tasks :
        HybridStored(t) =>
            LET results == tasks[t].results
                threshold == tasks[t].config[1].similarity_threshold
                chunks == state.retrieved_chunks
            IN  /\ Len(chunks) = Cardinality(KeptPositions(results, threshold))
                /\ \A i \in 1..Len(chunks) :
                      /\ chunks[i].chunk_id = results[NthKept(results, threshold, i)].chunk_id
                      /\ chunks[i].similarity = results[NthKept(results, threshold, i)].score
                /\ (results = ExampleHits /\ threshold = 50) => Len(chunks) = 3

\* C4 witness: the six hits of the example filtered at 50, stored over the
\* non-empty list of an earlier search.
C4_Witness ==
    \E t \in Tasks :
        /\ HybridStored(t)
        /\ tasks[t].results = ExampleHits
        /\ tasks[t].config[1].similarity_threshold = 50
        /\ Len(state.retrieved_chunks) = 3
        /\ ghost.nonempty

\* C5: whenever execute_search returns, successfully or not,
\* approved_chunk_ids is empty.
C5_SearchLeavesNoApproval ==
    ret.op = "search" => state.approved_chunk_ids = <<>>

\* C6: when no operation is in progress, awaiting_approval is true exactly
\* when the last search that returned left a non-empty chunk list and no
\* synthesis has completed since; after a failed or empty search it is false.
C6_AwaitingIffPendingApproval ==
    Quiescent => (state.awaiting_approval <=> (ghost.nonempty /\ ghost.syntheses = 0))

\* The timestamps of a list of SearchQuery records.
Timestamps(history) == [i \in 1..Len(history) |-> history[i].timestamp]

\* The last n elements of a sequence, all of it when it is shorter.
LastN(seq, n) == SubSeq(seq, Len(seq) - Min(Len(seq), n) + 1, Len(seq))

\* C7: search_history never holds more than 10 records and is the last
\* min(n, 10) of the n records appended so far, in call order; after 11
\* searches the record of the 1st is gone and that of the 11th is last.
C7_HistoryBoundedFifo ==
    /\ Len(state.search_history) <= 10
    /\ state.search_history = LastN(ghost.recorded, 10)
    /\ \A i, j \in 1..Len(state.search_history) :
          i < j => state.search_history[i].timestamp < state.search_history[j].timestamp
    /\ Len(ghost.recorded) = 11 /\ clock = 11 =>
          /\ state.search_history[10].timestamp = 11
          /\ \A i \in 1..10 : state.search_history[i].timestamp # 1

\* C7 witness: eleven searches in a row, all appended, the last one returned.
C7_Witness ==
    /\ clock = 11
    /\ Len(ghost.recorded) = 11
    /\ Len(state.search_history) = 10
    /\ ret.op = "search"
    /\ ret.kind = "ok"

\* The statuses f"error: {str(e)}" that carry a cause.
ErroredStatus(status) == status # "ready"

\* C8: a search that fails at the embedding provider or the backend returns
\* a failure result; in the state and in the one snapshot it carries
\* is_searching is false, the chunk list is empty, error_message is a
\* non-empty text and the store status is errored.
C8_ProviderFailureRecorded ==
    (ret.op = "search" /\ ret.kind = "failed" /\ ret.at = "L102") =>
        /\ Len(ret.snapshots) = 1
        /\ ret.snapshots[1] = state
        /\ ~state.is_searching
        /\ state.retrieved_chunks = <<>>
        /\ state.error_message # None
        /\ state.error_message # Some("")
        /\ ErroredStatus(state.knowledge_base_status)

NoApprovedChunkStored ==
    Range(state.approved_chunk_ids) \cap Ids(state.retrieved_chunks) = {}

\* C9: a synthesize call made when no approved id is the id of a stored
\* chunk (none approved, or only stale ids) returns not-ready, carries no
\* snapshot and leaves every field of the shared state as it was.
C9_NotReadyChangesNothing ==
    [][(ret'.op = "synthesize" /\ NoApprovedChunkStored) =>
          /\ ret'.kind = "not_ready"
          /\ ret'.snapshots = <<>>
          /\ state' = state]_vars

\* C9 witness: not-ready returned on stale approvals while chunks are stored
\* and awaiting_approval is set.
C9_Witness ==
    /\ ret.op = "synthesize"
    /\ ret.kind = "not_ready"
    /\ state.approved_chunk_ids # <<>>
    /\ state.retrieved_chunks # <<>>
    /\ state.awaiting_approval
    /\ ~state.is_synthesizing

\* C10: synthesize produces a bundle only when awaiting_approval is true.
C10_SynthesisOnlyWhenAwaiting ==
    [][(ret'.op = "synthesize" /\ ret'.kind = "ok") => state.awaiting_approval]_vars

\* C10 as amended: synthesize produces a bundle exactly when some approved
\* id is the id of a stored chunk, whatever awaiting_approval holds, and the
\* bundle's return leaves awaiting_approval false.
C10_SynthesisGatedByApprovalsOnly ==
    [][ret'.op = "synthesize" =>
          /\ ret'.kind = "ok" <=> ~NoApprovedChunkStored
          /\ ret'.kind = "ok" => ~state'.awaiting_approval]_vars

\* C10 witness: a second bundle produced after the same search.
C10_Witness ==
    /\ SynthesisReturned
    /\ ghost.syntheses = 2
    /\ ~state.awaiting_approval

\* The tasks running execute_search, each suspended at one of its awaits.
SearchSuspended == {t \in Tasks : tasks[t].op = "search"}

\* C11: while an execute_search is suspended at one of its awaits no other
\* tool is in flight on the same state (no second search, no stats refresh)
\* and no synthesize runs.
C11_MutatingOpsSerialized ==
    \A t \in SearchSuspended :
        /\ \A u \in Tasks \ {t} : tasks[u].pc = "idle"
        /\ ret.op # "synthesize"

\* C12: a get_state that runs while an execute_search is suspended reads a
\* whole state: it does not report the search as running, and if the state
\* already carries that search's query then the search has made all its
\* updates (it is past the chunk-count refresh, at the cleanup).
C12_ReadsSeeWholeStates ==
    ret.op = "get_state" =>
        \A t \in SearchSuspended :
            /\ ret.value[1].status # "searching"
            /\ state.current_query = tasks[t].search_query => tasks[t].pc = "L178"

MutatingCompleted == ret.op \in {"search", "stats"} \/ SynthesisReturned

\* C13: a search or a stats refresh that returns, successfully or through
\* its handler, and a synthesis that produces a bundle, carry exactly one
\* snapshot, equal to the state at the return.
C13_OneSnapshotOfFinalState ==
    MutatingCompleted => ret.snapshots = <<state>>

\* C13 witness: a stats refresh returned through its handler while a chunk
\* list and approvals were in place.
C13_Witness ==
    /\ ret.op = "stats"
    /\ ret.kind = "failed"
    /\ Len(ret.snapshots) = 1
    /\ state.retrieved_chunks # <<>>
    /\ state.approved_chunk_ids # <<>>

\* C14: in every state between two steps of the tools and the observer, and
\* in every snapshot returned, is_searching and is_synthesizing are not both
\* true, whichever tools overlap.
C14_NotSearchingAndSynthesizing ==
    /\ ~(state.is_searching /\ state.is_synthesizing)
    /\ \A i \in 1..Len(ret.snapshots) :
          ~(ret.snapshots[i].is_searching /\ ret.snapshots[i].is_synthesizing)

\* C14 witness: a synthesis has just produced its bundle while a search is
\* suspended with is_searching set.
C14_Witness ==
    /\ SynthesisReturned
    /\ SearchSuspended # {}
    /\ state.is_searching
    /\ ret.snapshots[1].is_searching

\* The awaits of execute_search (agent.py:90, 102/127, 174, 178).
SearchAwaits == {"L90", "L102", "L174", "L178"}

\* An external call of execute_search timed out: the call raised (the
\* handler ran) or the awaiting task was cancelled.
SearchTimedOut ==
    \/ ret.op = "search" /\ ret.kind = "failed"
    \/ ret.kind = "cancelled" /\ ret.at \in SearchAwaits

\* C15: after a timeout of an external call of execute_search, raised or
\* delivered as cancellation, with no other search in flight, is_searching
\* is false, the chunk list is empty and error_message is set.
C15_TimeoutEndsInError ==
    (SearchTimedOut /\ SearchSuspended = {}) =>
        /\ ~state.is_searching
        /\ state.retrieved_chunks = <<>>
        /\ state.error_message # None

\* The configuration of the end-to-end example.
ExampleConfig ==
    [similarity_threshold |-> 50, max_results |-> 10, search_type |-> "hybrid"]

\* Task t runs the example: hybrid search, the six hits answered.
RunsExample(t) ==
    /\ tasks[t].op = "search"
    /\ tasks[t].config = Some(ExampleConfig)
    /\ tasks[t].results = ExampleHits

\* The step in which t stores its chunk list (agent.py:149-171).
StoresList(t) == tasks[t].pc = "L102" /\ tasks'[t].pc = "L174"

\* The step in which t returns its result (agent.py:191-199).
ReturnsResult(t) == tasks[t].pc = "L178" /\ tasks'[t].pc = "idle" /\ ret'.kind = "ok"

\* chunk_index restarts at 1 for each document, in rank order.
IndicesRestart(chunks) ==
    \A i \in 1..Len(chunks) :
        chunks[i].chunk_index =
            Cardinality({j \in 1..i : chunks[j].document_id = chunks[i].document_id})

\* C16: the example search stores and returns 4 chunks, with
\* awaiting_approval true, approved_chunk_ids empty and chunk_index
\* restarting at 1 for each document in rank order.
C16_ExampleRetainsFour ==
    [][\A t \in Tasks :
          /\ (StoresList(t) /\ RunsExample(t)') =>
                /\ Len(state'.retrieved_chunks) = 4
                /\ state'.awaiting_approval
                /\ state'.approved_chunk_ids = <<>>
                /\ IndicesRestart(state'.retrieved_chunks)
          /\ (ReturnsResult(t) /\ RunsExample(t)) =>
                /\ Len(state'.retrieved_chunks) = 4
                /\ state'.awaiting_approval]_vars

\* C16 as amended: the example search stores the 3 hits scored 90, 70 and 60
\* with awaiting_approval true, approved_chunk_ids empty and the indices
\* 1, 1, 2 (two documents), and returns with these 3 chunks and
\* awaiting_approval true.
C16_ExampleRetainsThree ==
    [][\A t \in Tasks :
          /\ (StoresList(t) /\ RunsExample(t)') =>
                /\ Len(state'.retrieved_chunks) = 3
                /\ \A i \in 1..3 :
                      /\ state'.retrieved_chunks[i].chunk_id = ExampleHits[i].chunk_id
                      /\ state'.retrieved_chunks[i].similarity = ExampleHits[i].score
                /\ state'.awaiting_approval
                /\ state'.approved_chunk_ids = <<>>
                /\ IndicesRestart(state'.retrieved_chunks)
                /\ state'.retrieved_chunks[3].chunk_index = 2
          /\ (ReturnsResult(t) /\ RunsExample(t)) =>
                /\ Len(state'.retrieved_chunks) = 3
                /\ IndicesRestart(state'.retrieved_chunks)
                /\ state'.awaiting_approval]_vars

\* C16 witness: the example search has stored its list, refreshed the chunk
\* count and is about to return; the list replaced that of an earlier search.
C16_Witness ==
    \E t \in Tasks :
        /\ RunsExample(t)
        /\ tasks[t].pc = "L178"
        /\ Len(state.retrieved_chunks) = 3
        /\ state.approved_chunk_ids = <<>>
        /\ state.awaiting_approval
        /\ ghost.nonempty

\* C17: a synthesize that produces a bundle leaves every field of the state
\* as it was (chunk list, current_query, search_history, store statistics,
\* approvals, configuration) except awaiting_approval, now false, and
\* error_message, now none; is_synthesizing is false at the return.
C17_SynthesisMovesTwoFlags ==
    [][(ret'.op = "synthesize" /\ ret'.kind = "ok") =>
          state' = [state EXCEPT !.awaiting_approval = FALSE,
                                 !.error_message = None,
                                 !.is_synthesizing = FALSE]]_vars

\* C17 witness: a bundle of one block was produced from a list of three
\* chunks, which is still the stored list.
C17_Witness ==
    /\ SynthesisReturned
    /\ Len(ret.value) = 1
    /\ Len(state.retrieved_chunks) = 3
    /\ state.search_history # <<>>
    /\ ~state.awaiting_approval

\* A step of a tool (not a write of the observer): a coroutine moves or
\* something is handed to the caller.
OwnerStep == tasks' # tasks \/ ret' # NoReturn

\* C18: no step of a tool changes search_config, and a step of a tool
\* changes approved_chunk_ids only by emptying it when a search stores its
\* chunk list.
C18_OwnerLeavesObserverFields ==
    [][OwnerStep =>
          /\ state'.search_config = state.search_config
          /\ \/ state'.approved_chunk_ids = state.approved_chunk_ids
             \/ /\ state'.approved_chunk_ids = <<>>
                /\ \E t \in Tasks : StoresList(t)]_vars

\* C18 witness: a search has stored its list with the approvals emptied,
\* after a synthesis had used approvals, under a configuration the observer
\* wrote.
C18_Witness ==
    \E t \in Tasks :
        /\ tasks[t].pc = "L174"
        /\ state.approved_chunk_ids = <<>>
        /\ ghost.syntheses > 0
        /\ state.search_config # SearchConfig

\* C19: the stored similarity_threshold lies in [0, 1] and the stored
\* max_results is positive and at most max_match_count, whatever the
\* observer wrote.
C19_StoredConfigInRange ==
    /\ state.search_config.similarity_threshold \in 0..100
    /\ state.search_config.max_results \in 1..max_match_count

\* C20: the snapshot carried by the return of an operation that failed
\* (execute_search or the stats refresh, at any of their external calls) has
\* an error_message.
C20_FailureSetsErrorMessage ==
    ret.kind = "failed" =>
        /\ Len(ret.snapshots) = 1
        /\ ret.snapshots[1].error_message # None

\* The step in which t is called and runs up to its first await.
StartsSearch(t) == tasks[t].pc = "idle" /\ tasks'[t].pc = "L90"

\* C21: a search clears error_message when it starts, and a search that
\* returns successfully returns a state with no error_message, the store
\* status "ready" and awaiting_approval equal to (chunk list non-empty).
C21_ErrorIsRecoverable ==
    [][/\ \A t \in Tasks : StartsSearch(t) => state'.error_message = None
       /\ (ret'.op = "search" /\ ret'.kind = "ok") =>
             /\ state'.error_message = None
             /\ state'.knowledge_base_status = "ready"
             /\ state'.awaiting_approval = (state'.retrieved_chunks # <<>>)]_vars

\* C21 witness: the first search failed before storing anything, the second
\* one returned a non-empty list.
C21_Witness ==
    /\ ret.op = "search"
    /\ ret.kind = "ok"
    /\ clock = 2
    /\ Len(state.search_history) = 1
    /\ state.retrieved_chunks # <<>>
    /\ state.awaiting_approval
    /\ state.error_message = None

Last(seq) == seq[Len(seq)]

\* C22: after any search call returns, successfully or not, the record of
\* the call is current_query and is the last element of search_history.
C22_EveryCallRecorded ==
    ret.op = "search" =>
        /\ state.current_query # None
        /\ state.search_history # <<>>
        /\ Last(state.search_history) = state.current_query[1]

\* C22 as amended: a call stores its record as current_query when it starts
\* and appends it to search_history in the step that stores the chunk list;
\* a call that fails before that step returns with its record in
\* current_query and not in search_history, any other call that returns
\* (tools running one at a time) has it as the last element of the history.
C22_RecordedWhenResultsStored ==
    [][\A t \in Tasks :
          /\ StartsSearch(t) =>
                /\ state'.current_query = tasks'[t].search_query
                /\ state'.current_query[1].timestamp = clock'
                /\ state'.search_history = state.search_history
          /\ StoresList(t) =>
                /\ state'.search_history # <<>>
                /\ Last(state'.search_history) = tasks[t].search_query[1]
          /\ (tasks[t].op = "search" /\ ret'.op = "search") =>
                /\ state'.current_query = tasks[t].search_query
                /\ IF tasks[t].pc \in {"L90", "L102"}
                   THEN tasks[t].search_query[1] \notin Range(state'.search_history)
                   ELSE /\ state'.search_history # <<>>
                        /\ Last(state'.search_history) = tasks[t].search_query[1]]_vars

\* C22 witness: a search failed at the backend after an earlier search had
\* been recorded; the history still ends with the earlier record.
C22_Witness ==
    /\ ret.op = "search"
    /\ ret.kind = "failed"
    /\ ret.at = "L102"
    /\ Len(state.search_history) = 1
    /\ state.current_query # Some(Last(state.search_history))

\* A semantic search that has just stored its chunk list.
SemanticStored(t) ==
    /\ tasks[t].pc = "L174"
    /\ tasks[t].config[1].search_type # "hybrid"

\* C23: in semantic mode the backend is given the threshold (no hit it
\* returns is below it) and the stored list is the backend's list, hit for
\* hit and in its order; in hybrid mode the backend is not given the
\* threshold and the stored list is what the coordinator's own filter keeps.
C23_FilterAsymmetry ==
    \A t \in Tasks :
        LET results == tasks[t].results
            threshold == tasks[t].config[1].similarity_threshold
            chunks == state.retrieved_chunks
        IN  /\ SemanticStored(t) =>
                  /\ Len(chunks) = Len(results)
                  /\ \A i \in 1..Len(results) :
                        /\ chunks[i].chunk_id = results[i].chunk_id
                        /\ chunks[i].similarity = results[i].score
                        /\ results[i].score >= threshold
            /\ HybridStored(t) =>
                  /\ results \in HitLists
                  /\ Len(chunks) = Cardinality(KeptPositions(results, threshold))

\* C23 witness: a semantic search stored the three hits the backend
\* returned, one of them scored exactly the threshold.
C23_Witness ==
    \E t \in Tasks :
        /\ SemanticStored(t)
        /\ Len(tasks[t].results) = 3
        /\ Len(state.retrieved_chunks) = 3
        /\ \E i \in 1..3 :
              state.retrieved_chunks[i].similarity = tasks[t].config[1].similarity_threshold

\* C24: every search that has started eventually returns, and whenever
\* is_searching is true it is eventually false, provided every awaited call
\* eventually returns or raises.
C24_SearchTerminates ==
    /\ \A t \in Tasks : (tasks[t].op = "search") ~> (tasks[t].pc = "idle")
    /\ state.is_searching ~> ~state.is_searching

\* C24 witness: the second search went through all four awaits and returned
\* through the handler when the cleanup raised; is_searching is false.
C24_Witness ==
    /\ ret.op = "search"
    /\ ret.kind = "failed"
    /\ ret.at = "L178"
    /\ clock = 2
    /\ Quiescent
    /\ ~state.is_searching

\* C25: a state as RAGState() constructs it has an empty chunk list, no
\* current query, an empty history, a chunk count of 0, the store status
\* "ready", no approvals, the three flags false, no error_message and the
\* configuration {0.5, 10, semantic}; get_state reports it as idle.
C25_NewStateIsIdle ==
    state = RAGState =>
        /\ state.retrieved_chunks = <<>>
        /\ state.current_query = None
        /\ state.search_history = <<>>
        /\ state.total_chunks_in_kb = 0
        /\ state.knowledge_base_status = "ready"
        /\ state.approved_chunk_ids = <<>>
        /\ ~state.awaiting_approval
        /\ ~state.is_searching
        /\ ~state.is_synthesizing
        /\ state.error_message = None
        /\ state.search_config =
              [similarity_threshold |-> 50, max_results |-> 10, search_type |-> "semantic"]
        /\ StatusLine(state) = "idle"

\* C25 witness: get_state has just read the state as constructed, before
\* any search was called.
C25_Witness ==
    /\ state = RAGState
    /\ clock = 0
    /\ ret.op = "get_state"
    /\ ret.value[1].status = "idle"
    /\ ret.value[1].chunks = <<>>

\* The step in which the handler of t's search returns (agent.py:201-216).
SearchFails(t) ==
    /\ tasks[t].op = "search"
    /\ ret'.op = "search"
    /\ ret'.kind = "failed"

\* C27: a search that fails, at whichever external call, returns with
\* search_history, awaiting_approval and approved_chunk_ids as they were
\* before the call: the failing call has not appended its record to the
\* history, and the handler changes none of the three.
C27_FailedSearchLeavesWorkflowFields ==
    [][\A t \in Tasks :
          SearchFails(t) =>
              /\ tasks[t].search_query[1] \notin Range(state'.search_history)
              /\ state'.search_history = state.search_history
              /\ state'.awaiting_approval = state.awaiting_approval
              /\ state'.approved_chunk_ids = state.approved_chunk_ids]_vars

\* C28: every snapshot a tool returns carries is_searching = false and
\* is_synthesizing = false, whichever tools overlap.
C28_SnapshotsCarryNoFlag ==
    \A i \in 1..Len(ret.snapshots) :
        /\ ~ret.snapshots[i].is_searching
        /\ ~ret.snapshots[i].is_synthesizing

\* C29: when no search is in flight and the chunk list is not empty, the
\* record in current_query is the last element of search_history (the
\* record of the search that stored the list).
C29_ListBelongsToCurrentQuery ==
    (SearchSuspended = {} /\ state.retrieved_chunks # <<>>) =>
        /\ state.current_query # None
        /\ state.search_history # <<>>
        /\ Last(state.search_history) = state.current_query[1]

\* The dependencies t created have been initialised: initialize() returned
\* (agent.py:90, 313).
Initialised(t) == tasks[t].pc \in {"L102", "L174", "L178", "L315", "L318"}

\* The step in which cleanup() returns and t returns after it
\* (agent.py:178-199, 318-328).
ReleasesAndReturns(t) == tasks[t].pc \in {"L178", "L318"} /\ ret'.kind = "ok"

\* C30: a search or a stats refresh that returns after its dependencies
\* were initialised returns after their cleanup, on every exit path.
C30_DependenciesReleased ==
    [][\A t \in Tasks :
          (Initialised(t) /\ tasks'[t].pc = "idle" /\ ret'.op \in {"search", "stats"})
              => ReleasesAndReturns(t)]_vars

WithFlags(s, flags) ==
    [s EXCEPT !.retrieved_chunks =
        [i \in 1..Len(@) |-> [@[i] EXCEPT !.approved = flags[i]]]]

FlagChoices == [1..Len(state.retrieved_chunks) -> BOOLEAN]

\* C31: the approved flag of a chunk decides nothing.  Whatever flags the
\* stored chunks carried, a synthesis on that state would make the same
\* ready / not-ready decision and hand over the same bundle, and get_state
\* would give the same summary; and no stored chunk has its flag set.
C31_ApprovedFlagNotAuthoritative ==
    /\ \A i \in 1..Len(state.retrieved_chunks) : ~state.retrieved_chunks[i].approved
    /\ ret.op = "synthesize" =>
          \A flags \in FlagChoices :
              LET s == WithFlags(state, flags)
              IN  /\ (ret.kind = "ok") = Ready(s)
                  /\ ret.kind = "ok" =>
                        ret.value = Context(ApprovedChunks(s.retrieved_chunks,
                                                           s.approved_chunk_ids))
    /\ ret.op = "get_state" =>
          \A flags \in FlagChoices : ret.value = <<Summary(WithFlags(state, flags))>>

\* A synthesis returned a bundle made of some, not all, of the stored chunks.
C31_Witness ==
    /\ ret.op = "synthesize" /\ ret.kind = "ok"
    /\ Len(state.retrieved_chunks) >= 2
    /\ Len(ret.value) < Len(state.retrieved_chunks)

(***************************************************************************)
(* The frame of the stats refresh                                          *)
(***************************************************************************)
\* A step taken by the stats refresh running as task t.
StatsStep(t) ==
    /\ tasks'[t] # tasks[t]
    /\ tasks[t].op = "stats" \/ tasks'[t].op = "stats"

\* The step in which the count arrives and is written (agent.py:315-316).
StatsWritesCount(t) ==
    tasks[t].op = "stats" /\ tasks[t].pc = "L315" /\ tasks'[t].pc = "L318"

\* The step in which the handler of the stats refresh runs (agent.py:330-340).
StatsFails(t) == tasks[t].op = "stats" /\ ret'.op = "stats" /\ ret'.kind = "failed"

\* C32, as the code has it: every step of the stats refresh leaves the chunk
\* list, the current query, the history, approved_chunk_ids,
\* awaiting_approval, is_searching, is_synthesizing, error_message and
\* search_config alone.  The step in which the store answers sets the count to
\* the store's value and the status to "ready"; the step in which the handler
\* runs changes only the status, to an error status, so the count keeps the
\* value it had when the handler ran (the value written in this very call when
\* it is cleanup that failed); the other steps change nothing.
C32_StatsFrame ==
    [][\A t \in Tasks :
          StatsStep(t) =>
              IF StatsWritesCount(t)
              THEN /\ state'.total_chunks_in_kb \in Counts
                   /\ state' = [state EXCEPT
                                   !.total_chunks_in_kb = state'.total_chunks_in_kb,
                                   !.knowledge_base_status = "ready"]
              ELSE IF StatsFails(t)
              THEN /\ state'.knowledge_base_status \in {ErrorStatus(msg) : msg \in ErrMsgs}
                   /\ state' = [state EXCEPT
                                   !.knowledge_base_status = state'.knowledge_base_status]
              ELSE state' = state]_vars

\* A refresh failed at cleanup, with a chunk list and approvals in the state:
\* they are all kept, and the count is the one this call wrote.
C32_Witness ==
    /\ ret.op = "stats" /\ ret.kind = "failed" /\ ret.at = "L318"
    /\ state.total_chunks_in_kb \in Counts
    /\ state.retrieved_chunks # <<>>
    /\ state.approved_chunk_ids # <<>>
    /\ state.knowledge_base_status # "ready"

\* C32 as stated: a stats refresh that fails has changed only the status, so
\* it has not written the count in the same call.
C32_FailureKeepsPreviousCount ==
    (ret.op = "stats" /\ ret.kind = "failed") => ret.at \in {"L313", "L315"}

C34_OnePoolBetweenCloses ==
    /\ db.since_close <= 1
    /\ Cardinality(db.handed) <= 1

====
